---------------------------- MODULE Spec2Model ----------------------------
(***************************************************************************)
(* The incident-ticket query engine of backend/main.py (and its earlier    *)
(* variant backend/test2.py): the dataset loaded once at startup, the      *)
(* three tool functions built on apply_filters, and the /chat handler that *)
(* looks the tool up by name and calls it with the caller's arguments.     *)
(*                                                                         *)
(* Python strings are sequences of one-character strings, so that lower()  *)
(* and str() are computed and not assumed; a text the code never looks     *)
(* into (a column name, a message) is one piece.  A JSON value is a record *)
(* [t, s, n, d]: t its type, s its characters, n its integer, d the set of *)
(* (key, value) pairs of an object.  NaN (an empty CSV cell) is the empty  *)
(* sequence: read_csv never yields an empty string.                        *)
(***************************************************************************)
EXTENDS Integers, Sequences, FiniteSets, TLC

VARIABLES
    app,      \* which program serves: "main" (main.py) or "test2" (test2.py)
    df,       \* the module-level DataFrame
    loaded,   \* the DataFrame as the startup load left it (never written)
    pc,       \* where each worker stands in the handler
    req,      \* the tool call each worker serves
    df_out,   \* apply_filters' local frame of each worker
    result    \* what each worker's handler returns or raises

vars == <<app, df, loaded, pc, req, df_out, result>>

-----------------------------------------------------------------------------
(* Bounds *)

MaxRows == 3
NumWorkers == 2
MaxConcRows == 1

-----------------------------------------------------------------------------
(* Python values *)

UpperChars == <<"A","B","C","D","E","F","G","H","I","J","K","L","M",
                "N","O","P","Q","R","S","T","U","V","W","X","Y","Z">>
LowerChars == <<"a","b","c","d","e","f","g","h","i","j","k","l","m",
                "n","o","p","q","r","s","t","u","v","w","x","y","z">>
DigitChars == <<"0","1","2","3","4","5","6","7","8","9">>

lower_char(c) ==
    IF \E i \in DOMAIN UpperChars : UpperChars[i] = c
    THEN LowerChars[CHOOSE i \in DOMAIN UpperChars : UpperChars[i] = c]
    ELSE c

\* str.lower() left out
lower_noop(s) == s

lower(s) == [i \in 1..Len(s) |-> lower_char(s[i])]

NaN == <<>>

JStr(s) == [t |-> "str", s |-> s, n |-> 0, d |-> {}]
JInt(n) == [t |-> "int", s |-> <<>>, n |-> n, d |-> {}]
JNull == [t |-> "null", s |-> <<>>, n |-> 0, d |-> {}]
JDict(d) == [t |-> "dict", s |-> <<>>, n |-> 0, d |-> d]

RECURSIVE format_int(_)
format_int(n) ==
    IF n < 0 THEN <<"-">> \o format_int(-n)
    ELSE IF n < 10 THEN <<DigitChars[n + 1]>>
    ELSE format_int(n \div 10) \o <<DigitChars[(n % 10) + 1]>>

IsDigits(s) == Len(s) > 0 /\ \A i \in 1..Len(s) : \E k \in 1..10 : DigitChars[k] = s[i]

RECURSIVE parse_digits(_)
parse_digits(s) ==
    IF Len(s) = 0 THEN 0
    ELSE 10 * parse_digits(SubSeq(s, 1, Len(s) - 1))
         + ((CHOOSE k \in 1..10 : DigitChars[k] = s[Len(s)]) - 1)

\* str(value): a string is itself, an integer its decimal digits, None "None"
py_str(v) ==
    CASE v.t = "str" -> v.s
      [] v.t = "int" -> format_int(v.n)
      [] v.t = "null" -> <<"N","o","n","e">>
      [] OTHER -> <<"{","}">>

\* int(value): "" when it returns, else the exception it raises
py_int_exc(v) ==
    CASE v.t = "int" -> ""
      [] v.t = "str" -> IF IsDigits(v.s) THEN "" ELSE "ValueError"
      [] OTHER -> "TypeError"

py_int(v) == IF v.t = "int" THEN v.n ELSE parse_digits(v.s)

\* if x: None, {}, "" and 0 are falsy
truthy(v) ==
    CASE v.t = "null" -> FALSE
      [] v.t = "dict" -> v.d # {}
      [] v.t = "str" -> Len(v.s) > 0
      [] v.t = "int" -> v.n # 0
      [] OTHER -> TRUE

has_key(d, k) == \E p \in d : p[1] = k
get(d, k) == (CHOOSE p \in d : p[1] = k)[2]
keys(d) == {p[1] : p \in d}

-----------------------------------------------------------------------------
(* The dataset: incidents.csv as loaded at startup *)

STR_COLUMNS == {"company", "status", "priority", "category", "assigned_to"}

Date(y, m, d) == [year |-> y, month |-> m, day |-> d]
NaT == [year |-> 0, month |-> 0, day |-> 0]

Row(id, co, st, pr, ca, asg, created, closed) ==
    [ticket_id |-> id, company |-> co, status |-> st, priority |-> pr,
     category |-> ca, assigned_to |-> asg,
     created_date |-> created, closed_date |-> closed]

\* The lines an incidents.csv may hold.  Rows 1..3 are the tickets of the
\* specification's scenario; 4 differs from 1 in letter case and year; 5 has
\* empty cells, a status that is a prefix of "open" and a numeric priority.
Ticket1 == Row(1, <<"A","c","m","e">>, <<"o","p","e","n">>, <<"h","i","g","h">>,
               <<"n","e","t">>, <<"a","n","n">>, Date(2024, 1, 5), NaT)
Ticket2 == Row(2, <<"A","c","m","e">>, <<"c","l","o","s","e","d">>, <<"l","o","w">>,
               <<"d","b">>, <<"b","o","b">>, Date(2024, 2, 10), Date(2024, 2, 12))
Ticket3 == Row(3, <<"B","e","t","a">>, <<"o","p","e","n">>, <<"h","i","g","h">>,
               <<"n","e","t">>, NaN, Date(2024, 1, 20), NaT)
Ticket4 == Row(4, <<"A","C","M","E">>, <<"O","p","e","n">>, <<"H","i","g","h">>,
               NaN, <<"A","n","n">>, Date(2023, 1, 15), NaT)
Ticket5 == Row(5, NaN, <<"o","p">>, <<"1">>, NaN, NaN, Date(2023, 12, 31), NaT)

CsvRows == {Ticket1, Ticket2, Ticket3, Ticket4, Ticket5}

\* ticket_id is unique: a file lists a row at most once, in any order
CsvFiles(max) ==
    { f \in UNION { [1..n -> CsvRows] : n \in 0..max } :
        \A i, j \in 1..Len(f) : f[i] = f[j] => i = j }

\* pd.read_csv: a column is of object (string) dtype when some cell of it holds
\* text, or when the file has no rows; a column of empty cells only is float64
read_csv(rows) ==
    [rows |-> rows,
     object |-> { c \in STR_COLUMNS :
                    Len(rows) = 0 \/ \E i \in 1..Len(rows) : rows[i][c] # NaN }]

\* df[mask]: the rows whose mask entry is True, in order, with the dtypes of df
RECURSIVE take(_, _)
take(rows, mask) ==
    IF Len(rows) = 0 THEN <<>>
    ELSE (IF Head(mask) THEN <<Head(rows)>> ELSE <<>>) \o take(Tail(rows), Tail(mask))

select(frame, mask) == [frame EXCEPT !.rows = take(frame.rows, mask)]

-----------------------------------------------------------------------------
(* main.py: allow-lists and tool functions *)

ALLOWED_FILTERS == {"company", "status", "priority", "category", "assigned_to"}

ALLOWED_GROUP_BY == {"company", "status", "priority", "category", "assigned_to", "month"}

Ok(frame) == [exc |-> "", frame |-> frame]
Raise(e) == [exc |-> e, frame |-> read_csv(<<>>)]

ResStr(text) == [kind |-> "str", text |-> text, rows |-> <<>>, groups |-> {}, exc |-> ""]
ResRecords(rows) == [kind |-> "records", text |-> <<>>, rows |-> rows, groups |-> {}, exc |-> ""]
ResDict(groups) == [kind |-> "dict", text |-> <<>>, rows |-> <<>>, groups |-> groups, exc |-> ""]
Fault(e) == [kind |-> "raise", text |-> <<>>, rows |-> <<>>, groups |-> {}, exc |-> e]
NoResult == [kind |-> "none", text |-> <<>>, rows |-> <<>>, groups |-> {}, exc |-> ""]

\* df_out[col].str.lower() == str(value).lower(): NaN compares unequal
cell_matches(cell, value) == cell # NaN /\ lower(cell) = lower(py_str(value))

\* the loop without the "if col in ALLOWED_FILTERS" test: any key is taken for
\* a column, and .str raises on a column that does not hold text
field_filters_unchecked(frame, filters) ==
    IF ~truthy(filters) THEN Ok(frame)
    ELSE IF filters.t # "dict" THEN Raise("AttributeError")
    ELSE IF \E p \in filters.d : p[1] \notin frame.object
    THEN Raise("AttributeError")
    ELSE Ok(select(frame, [i \in 1..Len(frame.rows) |->
                  \A p \in filters.d : cell_matches(frame.rows[i][p[1]], p[2])]))

\* main.py 74-79: the loop over filters.items()
field_filters(frame, filters) ==
    IF ~truthy(filters) THEN Ok(frame)
    ELSE IF filters.t # "dict" THEN Raise("AttributeError")
    ELSE LET used == { p \in filters.d : p[1] \in ALLOWED_FILTERS }
         IN IF \E p \in used : p[1] \notin frame.object
            THEN Raise("AttributeError")
            ELSE Ok(select(frame, [i \in 1..Len(frame.rows) |->
                         \A p \in used : cell_matches(frame.rows[i][p[1]], p[2])]))

\* "elif" for the second "if": the year is skipped when a month is given
date_filters_elif(frame, date_filter) ==
    IF ~truthy(date_filter) THEN Ok(frame)
    ELSE IF date_filter.t # "dict" THEN Raise("TypeError")
    ELSE LET d == date_filter.d
             hasM == has_key(d, "month")
             hasY == has_key(d, "year") /\ ~hasM
         IN IF hasM /\ py_int_exc(get(d, "month")) # ""
            THEN Raise(py_int_exc(get(d, "month")))
            ELSE IF hasY /\ py_int_exc(get(d, "year")) # ""
            THEN Raise(py_int_exc(get(d, "year")))
            ELSE Ok(select(frame, [i \in 1..Len(frame.rows) |->
                    /\ hasM => frame.rows[i].created_date.month = py_int(get(d, "month"))
                    /\ hasY => frame.rows[i].created_date.year = py_int(get(d, "year"))]))

\* main.py 81-89: month, then year.  The date filters served are mappings or
\* None; for a truthy number, "month" in date_filter raises TypeError
date_filters(frame, date_filter) ==
    IF ~truthy(date_filter) THEN Ok(frame)
    ELSE IF date_filter.t # "dict" THEN Raise("TypeError")
    ELSE LET d == date_filter.d
             hasM == has_key(d, "month")
             hasY == has_key(d, "year")
         IN IF hasM /\ py_int_exc(get(d, "month")) # ""
            THEN Raise(py_int_exc(get(d, "month")))
            ELSE IF hasY /\ py_int_exc(get(d, "year")) # ""
            THEN Raise(py_int_exc(get(d, "year")))
            ELSE Ok(select(frame, [i \in 1..Len(frame.rows) |->
                    /\ hasM => frame.rows[i].created_date.month = py_int(get(d, "month"))
                    /\ hasY => frame.rows[i].created_date.year = py_int(get(d, "year"))]))

apply_filters(df_in, filters, date_filter) ==
    LET df_copy == df_in
        a == field_filters(df_copy, filters)
    IN IF a.exc # "" THEN a ELSE date_filters(a.frame, date_filter)

TotalTickets == <<"Total tickets: ">>
NoTicketsFound == <<"No tickets found matching the criteria.">>
InvalidGroupBy == <<"Invalid group_by column.">>
NoDataForGrouping == <<"No data available for grouping.">>
TicketsOnly == <<"I can answer questions related to incident tickets only.">>

\* main.py 96
count_return(filtered_df) ==
    ResStr(TotalTickets \o format_int(Len(filtered_df.rows)))

\* the "if filtered_df.empty" test left out
filter_return_no_marker(filtered_df) == ResRecords(filtered_df.rows)

\* main.py 102-105
filter_return(filtered_df) ==
    IF Len(filtered_df.rows) = 0 THEN ResStr(NoTicketsFound)
    ELSE ResRecords(filtered_df.rows)

\* groupby(key).size().to_dict(): one entry per key value; rows whose key is
\* NaN are dropped (groupby's default dropna=True)
group_sizes(by) ==
    LET present == { i \in 1..Len(by) : by[i] # JStr(NaN) }
    IN { <<by[i], Cardinality({ j \in present : by[j] = by[i] })>> : i \in present }

\* main.py 114-122
group_by_return(filtered_df, group_by) ==
    IF Len(filtered_df.rows) = 0 THEN ResStr(NoDataForGrouping)
    ELSE IF group_by.s[1] = "month"
    THEN ResDict(group_sizes([i \in 1..Len(filtered_df.rows) |->
                                 JInt(filtered_df.rows[i].created_date.month)]))
    ELSE ResDict(group_sizes([i \in 1..Len(filtered_df.rows) |->
                                 JStr(filtered_df.rows[i][group_by.s[1]])]))

\* group_by not in ALLOWED_GROUP_BY
invalid_group_by(group_by) ==
    ~(group_by.t = "str" /\ Len(group_by.s) = 1 /\ group_by.s[1] \in ALLOWED_GROUP_BY)

count_tickets(d, filters, date_filter) ==
    LET filtered_df == apply_filters(d, filters, date_filter)
    IN IF filtered_df.exc # "" THEN Fault(filtered_df.exc)
       ELSE count_return(filtered_df.frame)

filter_tickets(d, filters, date_filter) ==
    LET filtered_df == apply_filters(d, filters, date_filter)
    IN IF filtered_df.exc # "" THEN Fault(filtered_df.exc)
       ELSE filter_return(filtered_df.frame)

\* the group key tested after the filtering instead of before it
group_by_tickets_late_check(d, group_by, filters, date_filter) ==
    LET filtered_df == apply_filters(d, filters, date_filter)
    IN IF filtered_df.exc # "" THEN Fault(filtered_df.exc)
       ELSE IF Len(filtered_df.frame.rows) = 0 THEN ResStr(NoDataForGrouping)
       ELSE IF invalid_group_by(group_by) THEN ResStr(InvalidGroupBy)
       ELSE group_by_return(filtered_df.frame, group_by)

group_by_tickets(d, group_by, filters, date_filter) ==
    IF invalid_group_by(group_by) THEN ResStr(InvalidGroupBy)
    ELSE LET filtered_df == apply_filters(d, filters, date_filter)
         IN IF filtered_df.exc # "" THEN Fault(filtered_df.exc)
            ELSE group_by_return(filtered_df.frame, group_by)

-----------------------------------------------------------------------------
(* main.py: the /chat handler *)

tools == {"count_tickets", "filter_tickets", "group_by_tickets"}

tool_map == {"count_tickets", "filter_tickets", "group_by_tickets"}

\* the parameters each tool function declares, and those without a default
parameters(name) ==
    IF name = "group_by_tickets" THEN {"group_by", "filters", "date_filter"}
    ELSE {"filters", "date_filter"}

required(name) == IF name = "group_by_tickets" THEN {"group_by"} ELSE {}

\* f(**args): a key that is no parameter, or a required parameter left out
binds(name, args) ==
    /\ keys(args) \subseteq parameters(name)
    /\ required(name) \subseteq keys(args)

\* a parameter's value: the caller's, or the default None
arg(args, k) == IF has_key(args, k) THEN get(args, k) ELSE JNull

\* whether the call reaches apply_filters
filters_rows(r) ==
    /\ r.tool_call
    /\ r.name \in tool_map
    /\ binds(r.name, r.args)
    /\ r.name = "group_by_tickets" => ~invalid_group_by(arg(r.args, "group_by"))

\* the tool's return value from the filtered frame
tool_return(r, filtered_df) ==
    CASE r.name = "count_tickets" -> count_return(filtered_df)
      [] r.name = "filter_tickets" -> filter_return(filtered_df)
      [] OTHER -> group_by_return(filtered_df, arg(r.args, "group_by"))

\* main.py 207-231: the reply of one request, or the exception it ends in
chat(d, r) ==
    IF ~r.tool_call THEN ResStr(TicketsOnly)
    ELSE IF r.name \notin tool_map THEN Fault("KeyError")
    ELSE IF ~binds(r.name, r.args) THEN Fault("TypeError")
    ELSE CASE r.name = "count_tickets" ->
                count_tickets(d, arg(r.args, "filters"), arg(r.args, "date_filter"))
           [] r.name = "filter_tickets" ->
                filter_tickets(d, arg(r.args, "filters"), arg(r.args, "date_filter"))
           [] OTHER ->
                group_by_tickets(d, arg(r.args, "group_by"),
                                 arg(r.args, "filters"), arg(r.args, "date_filter"))

-----------------------------------------------------------------------------
(* test2.py: the variant with fixed single-purpose tools *)

test2_tools == {"count_open_tickets", "get_high_priority_tickets",
                "tickets_this_month", "tickets_for_month", "filter_tickets"}

test2_tool_map == {"count_open_tickets", "get_high_priority_tickets",
                   "tickets_this_month", "tickets_for_month"}

TotalOpen == <<"Total open tickets: ">>
NoHighPriority == <<"No high priority tickets found.">>
CreatedThisMonth == <<"Tickets created this month: ">>
InvalidMonth == <<"Invalid month. Please provide a month between 1 and 12.">>
CreatedInMonth == <<"Tickets created in month ">>

count_open_tickets(d) ==
    LET Keep(r) == r.status = <<"o","p","e","n">>
    IN ResStr(TotalOpen \o format_int(Len(SelectSeq(d.rows, Keep))))

get_high_priority_tickets(d) ==
    LET Keep(r) == r.priority = <<"h","i","g","h">>
        high == SelectSeq(d.rows, Keep)
    IN IF Len(high) = 0 THEN ResStr(NoHighPriority)
       ELSE ResRecords([i \in 1..Len(high) |->
                           [ticket_id |-> high[i].ticket_id, company |-> high[i].company,
                            status |-> high[i].status,
                            created_date |-> high[i].created_date]])

tickets_this_month(d, now) ==
    LET Keep(r) == r.created_date.month = now.month /\ r.created_date.year = now.year
    IN ResStr(CreatedThisMonth \o format_int(Len(SelectSeq(d.rows, Keep))))

\* month < 1 raises TypeError when month is not a number
tickets_for_month(d, month) ==
    IF month.t # "int" THEN Fault("TypeError")
    ELSE IF month.n < 1 \/ month.n > 12 THEN ResStr(InvalidMonth)
    ELSE LET Keep(r) == r.created_date.month = month.n
         IN ResStr(CreatedInMonth \o format_int(month.n) \o <<": ">>
                   \o format_int(Len(SelectSeq(d.rows, Keep))))

test2_parameters(name) == IF name = "tickets_for_month" THEN {"month"} ELSE {}

test2_binds(name, args) ==
    /\ keys(args) \subseteq test2_parameters(name)
    /\ test2_parameters(name) \subseteq keys(args)

\* test2.py 172-203
test2_chat(d, r) ==
    IF ~r.tool_call THEN ResStr(TicketsOnly)
    ELSE IF r.name \notin test2_tool_map THEN Fault("KeyError")
    ELSE IF ~test2_binds(r.name, r.args) THEN Fault("TypeError")
    ELSE CASE r.name = "count_open_tickets" -> count_open_tickets(d)
           [] r.name = "get_high_priority_tickets" -> get_high_priority_tickets(d)
           [] r.name = "tickets_this_month" -> tickets_this_month(d, r.now)
           [] OTHER -> tickets_for_month(d, get(r.args, "month"))

-----------------------------------------------------------------------------
(* The tool calls the language model may hand to the handler *)

Absent == [t |-> "absent", s |-> <<>>, n |-> 0, d |-> {}]

S_open == <<"o","p","e","n">>
S_OPEN == <<"O","P","E","N">>
S_Acme == <<"A","c","m","e">>
S_acme == <<"a","c","m","e">>
S_Beta == <<"B","e","t","a">>
S_Zzz == <<"Z","z","z">>
S_HIGH == <<"H","I","G","H">>

FilterDicts ==
    { {},
      {<<"status", JStr(S_open)>>},
      {<<"status", JStr(S_OPEN)>>},
      {<<"status", JStr(<<"o","p">>)>>},
      {<<"company", JStr(S_Acme)>>},
      {<<"company", JStr(S_acme)>>, <<"status", JStr(S_open)>>},
      {<<"company", JStr(S_Zzz)>>},
      {<<"priority", JInt(1)>>},
      {<<"priority", JStr(S_HIGH)>>, <<"company", JStr(S_Beta)>>},
      {<<"category", JStr(<<"n","e","t">>)>>, <<"assigned_to", JStr(<<"a","n","n">>)>>},
      {<<"company", JStr(S_Acme)>>, <<"ticket_id", JInt(1)>>,
       <<"created_date", JStr(<<"2","0","2","4">>)>>} }

FilterArgs == {Absent, JNull, JStr(S_open)} \cup { JDict(f) : f \in FilterDicts }

DateDicts ==
    { {},
      {<<"month", JInt(1)>>},
      {<<"year", JInt(2024)>>},
      {<<"month", JInt(1)>>, <<"year", JInt(2024)>>},
      {<<"month", JInt(1)>>, <<"year", JInt(2023)>>},
      {<<"month", JStr(<<"1">>)>>},
      {<<"month", JInt(13)>>},
      {<<"month", JInt(0)>>},
      {<<"month", JStr(<<"j","a","n">>)>>},
      {<<"year", JNull>>},
      {<<"month", JInt(2)>>, <<"year", JStr(<<"x">>)>>} }

DateArgs == {Absent, JNull} \cup { JDict(d) : d \in DateDicts }

\* the date filters tried together with a group key
GroupDateArgs ==
    { Absent, JDict({<<"month", JInt(1)>>}), JDict({<<"month", JInt(13)>>}),
      JDict({<<"month", JStr(<<"j","a","n">>)>>}) }

GroupArgs == { JStr(<<"company">>), JStr(<<"priority">>), JStr(<<"assigned_to">>),
               JStr(<<"month">>), JStr(<<"ticket_id">>), JStr(<<"Company">>) }

kwarg(k, v) == IF v = Absent THEN {} ELSE {<<k, v>>}

ToolCall(name, args, now) == [tool_call |-> TRUE, name |-> name, args |-> args, now |-> now]
NoToolCall == [tool_call |-> FALSE, name |-> "", args |-> {}, now |-> NaT]

\* names the model may answer with that no tool list holds
UnknownNames == {"delete_tickets"}

Requests ==
    {NoToolCall}
    \cup { ToolCall(n, kwarg("filters", f) \cup kwarg("date_filter", dt), NaT) :
             n \in {"count_tickets", "filter_tickets"}, f \in FilterArgs, dt \in DateArgs }
    \cup { ToolCall("group_by_tickets",
                    kwarg("group_by", g) \cup kwarg("filters", f) \cup kwarg("date_filter", dt),
                    NaT) :
             g \in GroupArgs, f \in FilterArgs, dt \in GroupDateArgs }
    \cup { ToolCall("group_by_tickets", kwarg("filters", f), NaT) : f \in FilterArgs }
    \cup { ToolCall(n, {<<"limit", JInt(10)>>}, NaT) : n \in tools }
    \cup { ToolCall(n, {}, NaT) : n \in UnknownNames \cup test2_tool_map }

Clock == { Date(2024, 1, 15), Date(2023, 12, 1), Date(2024, 6, 30) }

Test2Requests ==
    {NoToolCall}
    \cup { ToolCall(n, {}, NaT) : n \in (test2_tools \ {"tickets_this_month"}) \cup UnknownNames }
    \cup { ToolCall("tickets_this_month", {}, now) : now \in Clock }
    \cup { ToolCall("tickets_for_month", {<<"month", m>>}, NaT) :
             m \in {JInt(0), JInt(1), JInt(2), JInt(12), JInt(13), JStr(<<"1">>), JNull} }
    \cup { ToolCall("filter_tickets", {<<"filters", JDict(f)>>}, NaT) : f \in FilterDicts }
    \cup { ToolCall("count_open_tickets", {<<"month", JInt(1)>>}, NaT) }

-----------------------------------------------------------------------------
(* One worker serving one request at a time *)

Workers == 1..NumWorkers

NoFrame == read_csv(<<>>)

Init ==
    /\ app \in {"main", "test2"}
    /\ df \in { read_csv(f) : f \in CsvFiles(MaxRows) }
    /\ loaded = df
    /\ pc = [w \in Workers |-> "idle"]
    /\ req = [w \in Workers |-> NoToolCall]
    /\ df_out = [w \in Workers |-> NoFrame]
    /\ result = [w \in Workers |-> NoResult]

\* main.py: POST /chat, from the model's answer to the reply
Chat(w) ==
    /\ app = "main"
    /\ pc[w] = "idle"
    /\ \E r \in Requests :
         /\ req' = [req EXCEPT ![w] = r]
         /\ result' = [result EXCEPT ![w] = chat(df, r)]
    /\ pc' = [pc EXCEPT ![w] = "done"]
    /\ UNCHANGED <<app, df, loaded, df_out>>

\* test2.py: POST /chat
Test2Chat(w) ==
    /\ app = "test2"
    /\ pc[w] = "idle"
    /\ \E r \in Test2Requests :
         /\ req' = [req EXCEPT ![w] = r]
         /\ result' = [result EXCEPT ![w] = test2_chat(df, r)]
    /\ pc' = [pc EXCEPT ![w] = "done"]
    /\ UNCHANGED <<app, df, loaded, df_out>>

\* the reply is sent and the worker takes the next request
Reply(w) ==
    /\ pc[w] = "done"
    /\ pc' = [pc EXCEPT ![w] = "idle"]
    /\ req' = [req EXCEPT ![w] = NoToolCall]
    /\ result' = [result EXCEPT ![w] = NoResult]
    /\ df_out' = [df_out EXCEPT ![w] = NoFrame]
    /\ UNCHANGED <<app, df, loaded>>

Next == Chat(1) \/ Test2Chat(1) \/ Reply(1)

Spec == Init /\ [][Next]_vars

-----------------------------------------------------------------------------
(* main.py served by a pool of worker threads: the handler step by step *)

ConcRequests ==
    { ToolCall("count_tickets", {<<"filters", JDict({<<"status", JStr(S_open)>>})>>}, NaT),
      ToolCall("filter_tickets", {<<"filters", JDict({<<"company", JStr(S_Zzz)>>})>>}, NaT),
      ToolCall("filter_tickets", {<<"date_filter", JDict({<<"year", JInt(2024)>>})>>}, NaT),
      ToolCall("group_by_tickets", {<<"group_by", JStr(<<"company">>)>>}, NaT),
      ToolCall("group_by_tickets", {<<"group_by", JStr(<<"ticket_id">>)>>}, NaT),
      ToolCall("count_tickets",
               {<<"date_filter", JDict({<<"month", JStr(<<"j","a","n">>)>>})>>}, NaT),
      ToolCall("delete_tickets", {}, NaT) }

ConcInit ==
    /\ app = "main"
    /\ df \in { read_csv(f) : f \in CsvFiles(MaxConcRows) }
    /\ loaded = df
    /\ pc = [w \in Workers |-> "idle"]
    /\ req = [w \in Workers |-> NoToolCall]
    /\ df_out = [w \in Workers |-> NoFrame]
    /\ result = [w \in Workers |-> NoResult]

\* main.py 220-227: the model's answer names a tool and its arguments
Receive(w) ==
    /\ pc[w] = "idle"
    /\ \E r \in ConcRequests : req' = [req EXCEPT ![w] = r]
    /\ pc' = [pc EXCEPT ![w] = "dispatch"]
    /\ UNCHANGED <<app, df, loaded, df_out, result>>

\* main.py 229, 109-112: the lookup in tool_map, the binding of the arguments,
\* the group key check, and the global df handed to apply_filters
Dispatch(w) ==
    /\ pc[w] = "dispatch"
    /\ IF filters_rows(req[w])
       THEN /\ df_out' = [df_out EXCEPT ![w] = df]
            /\ pc' = [pc EXCEPT ![w] = "apply"]
            /\ UNCHANGED result
       ELSE /\ result' = [result EXCEPT ![w] = chat(df, req[w])]
            /\ pc' = [pc EXCEPT ![w] = "done"]
            /\ UNCHANGED df_out
    /\ UNCHANGED <<app, df, loaded, req>>

\* the same step writing the filtered frame to the module-level df
ApplyFiltersInPlace(w) ==
    /\ pc[w] = "apply"
    /\ LET filtered_df == apply_filters(df_out[w], arg(req[w].args, "filters"),
                                        arg(req[w].args, "date_filter"))
       IN IF filtered_df.exc # ""
          THEN /\ result' = [result EXCEPT ![w] = Fault(filtered_df.exc)]
               /\ pc' = [pc EXCEPT ![w] = "done"]
               /\ UNCHANGED <<df, df_out>>
          ELSE /\ df_out' = [df_out EXCEPT ![w] = filtered_df.frame]
               /\ df' = filtered_df.frame
               /\ pc' = [pc EXCEPT ![w] = "return"]
               /\ UNCHANGED result
    /\ UNCHANGED <<app, loaded, req>>

\* main.py 71-91 on the worker's own frame
ApplyFilters(w) ==
    /\ pc[w] = "apply"
    /\ LET filtered_df == apply_filters(df_out[w], arg(req[w].args, "filters"),
                                        arg(req[w].args, "date_filter"))
       IN IF filtered_df.exc # ""
          THEN /\ result' = [result EXCEPT ![w] = Fault(filtered_df.exc)]
               /\ pc' = [pc EXCEPT ![w] = "done"]
               /\ UNCHANGED df_out
          ELSE /\ df_out' = [df_out EXCEPT ![w] = filtered_df.frame]
               /\ pc' = [pc EXCEPT ![w] = "return"]
               /\ UNCHANGED result
    /\ UNCHANGED <<app, df, loaded, req>>

\* main.py 96, 102-105, 114-122: the tool's return value
Return(w) ==
    /\ pc[w] = "return"
    /\ result' = [result EXCEPT ![w] = tool_return(req[w], df_out[w])]
    /\ pc' = [pc EXCEPT ![w] = "done"]
    /\ UNCHANGED <<app, df, loaded, req, df_out>>

ConcNext ==
    \E w \in Workers :
        \/ Receive(w)
        \/ Dispatch(w)
        \/ ApplyFilters(w)
        \/ Return(w)
        \/ Reply(w)

ConcSpec == ConcInit /\ [][ConcNext]_vars

-----------------------------------------------------------------------------
(* Vocabulary of the properties *)

FilterFields == {"company", "status", "priority", "category", "assigned_to"}
GroupKeys == { <<"company">>, <<"status">>, <<"priority">>, <<"category">>,
               <<"assigned_to">>, <<"month">> }
Operations == {"count_tickets", "filter_tickets", "group_by_tickets"}

\* worker w has served a tool call and holds its outcome
Served(w) == pc[w] = "done" /\ req[w].tool_call

\* main.py has called the tool function `name` with the arguments bound
Called(w, name) ==
    /\ app = "main"
    /\ Served(w)
    /\ req[w].name = name
    /\ keys(req[w].args) \subseteq {"filters", "date_filter", "group_by"}
    /\ has_key(req[w].args, "group_by") <=> name = "group_by_tickets"

F(w) == arg(req[w].args, "filters")
D(w) == arg(req[w].args, "date_filter")
G(w) == arg(req[w].args, "group_by")

\* an absent, None or mapping-valued argument
IsMapping(v) == v.t \in {"null", "dict"}

AllowListedOnly(f) == IsMapping(f) /\ keys(f.d) \subseteq FilterFields

\* month an integer in 1..12, year an integer, each optional
ValidDate(dt) ==
    /\ IsMapping(dt)
    /\ keys(dt.d) \subseteq {"month", "year"}
    /\ has_key(dt.d, "month") =>
           get(dt.d, "month").t = "int" /\ get(dt.d, "month").n \in 1..12
    /\ has_key(dt.d, "year") => get(dt.d, "year").t = "int"

\* a month outside 1..12, or a month or year that is no number at all
NotANumber(v) == v.t = "null" \/ (v.t = "str" /\ ~IsDigits(v.s))
InvalidDate(dt) ==
    /\ dt.t = "dict"
    /\ \/ /\ has_key(dt.d, "month")
          /\ \/ NotANumber(get(dt.d, "month"))
             \/ get(dt.d, "month").t = "int" /\ get(dt.d, "month").n \notin 1..12
       \/ has_key(dt.d, "year") /\ NotANumber(get(dt.d, "year"))

\* the same letters, whatever their case, at every position
SameIgnoringCase(a, b) ==
    /\ Len(a) = Len(b)
    /\ \A i \in 1..Len(a) :
          \/ a[i] = b[i]
          \/ \E k \in DOMAIN UpperChars : {a[i], b[i]} = {UpperChars[k], LowerChars[k]}

upper_char(c) ==
    IF \E i \in DOMAIN LowerChars : LowerChars[i] = c
    THEN UpperChars[CHOOSE i \in DOMAIN LowerChars : LowerChars[i] = c]
    ELSE c

\* a filter mapping with every text value in capitals
InCapitals(f) ==
    JDict({ <<p[1], IF p[2].t = "str"
                    THEN JStr([i \in 1..Len(p[2].s) |-> upper_char(p[2].s[i])])
                    ELSE p[2]>> : p \in f.d })

\* the request of worker w with another filter mapping
WithFilters(w, f) ==
    [req[w] EXCEPT !.args = { p \in @ : p[1] # "filters" } \cup {<<"filters", f>>}]

\* the rows each predicate keeps on its own, as sets of row numbers
FieldKeeps(rows, p) ==
    { i \in 1..Len(rows) :
        rows[i][p[1]] # NaN /\ SameIgnoringCase(rows[i][p[1]], py_str(p[2])) }
MonthKeeps(rows, m) == { i \in 1..Len(rows) : rows[i].created_date.month = m }
YearKeeps(rows, y) == { i \in 1..Len(rows) : rows[i].created_date.year = y }

\* their intersection, for a mapping f and a valid date filter dt
Intersection(rows, f, dt) ==
    { i \in 1..Len(rows) :
        /\ \A p \in f.d : p[1] \in FilterFields => i \in FieldKeeps(rows, p)
        /\ has_key(dt.d, "month") => i \in MonthKeeps(rows, get(dt.d, "month").n)
        /\ has_key(dt.d, "year") => i \in YearKeeps(rows, get(dt.d, "year").n) }

\* the rows numbered in I, in the order of the dataset
RowsAt(rows, I) ==
    [j \in 1..Cardinality(I) |->
        rows[CHOOSE i \in I : Cardinality({ k \in I : k < i }) = j - 1]]

\* a filtered column that holds no text: its .str accessor raises
NoTextColumn(frame, f) == \E p \in f.d : p[1] \in FilterFields /\ p[1] \notin frame.object

RECURSIVE SumCounts(_)
SumCounts(groups) ==
    IF groups = {} THEN 0
    ELSE LET p == CHOOSE x \in groups : TRUE
         IN p[2] + SumCounts(groups \ {p})

\* the number a "Total tickets: N" reply reports
IsCount(c) == c.kind = "str" /\ Len(c.text) > 1 /\ Head(c.text) = "Total tickets: "
                /\ IsDigits(Tail(c.text))
Reported(c) == parse_digits(Tail(c.text))

Scenario == <<Ticket1, Ticket2, Ticket3>>

-----------------------------------------------------------------------------
(* Properties *)

\* what list returned (l) against what count returned (c) for the same arguments
ListAgreesWithCount(l, c) ==
    /\ l.kind \in {"str", "records", "raise"}
    /\ l.kind = "raise" <=> c.kind = "raise"
    /\ l.kind # "raise" => IsCount(c)
    /\ l.kind = "str" => l.text = NoTicketsFound /\ Reported(c) = 0
    /\ l.kind = "records" => Reported(c) = Len(l.rows) /\ Len(l.rows) > 0

\* C1: for a filter mapping with allow-listed keys only and a valid date filter,
\* filter_tickets returns the "no tickets" marker exactly when count_tickets
\* reports 0 for the same arguments, and otherwise returns as many records as
\* count_tickets reports.
C1_ListMatchesCount ==
    \A w \in Workers :
        /\ (Called(w, "filter_tickets") /\ AllowListedOnly(F(w)) /\ ValidDate(D(w)))
              => ListAgreesWithCount(result[w], count_tickets(df, F(w), D(w)))
        /\ (Called(w, "count_tickets") /\ AllowListedOnly(F(w)) /\ ValidDate(D(w)))
              => ListAgreesWithCount(filter_tickets(df, F(w), D(w)), result[w])

C1_Witness ==
    \E w \in Workers :
        /\ Called(w, "filter_tickets") /\ AllowListedOnly(F(w)) /\ ValidDate(D(w))
        /\ truthy(F(w)) /\ truthy(D(w))
        /\ result[w].kind = "records"
        /\ Len(result[w].rows) = 2
        /\ Len(df.rows) = 3

\* C2: for a valid group key and a non-empty filtered set, the counts that
\* group_by_tickets returns sum to the number count_tickets reports for the same
\* filters, records without a value for the grouping field included.
C2_GroupCountsSumToCount ==
    \A w \in Workers :
        (Called(w, "group_by_tickets") /\ G(w).t = "str" /\ G(w).s \in GroupKeys
         /\ result[w].kind = "dict")
            => LET c == count_tickets(df, F(w), D(w))
               IN IsCount(c) /\ SumCounts(result[w].groups) = Reported(c)

\* C3: a tool name outside the name-to-function map ends in a structured
\* error reply, never in a raised exception.
C3_UnknownOperationIsReported ==
    \A w \in Workers :
        (Served(w) /\ req[w].name \notin (IF app = "main" THEN tool_map ELSE test2_tool_map))
            => result[w].kind # "raise"

\* C4: count, list and group_by answer a date filter whose month is no integer
\* or lies outside 1..12, or whose year is no integer, with an invalid-argument
\* reply: no exception, no count and no "no results" marker.
C4_InvalidDateIsRejected ==
    \A w \in Workers :
        (\E name \in Operations : Called(w, name)
         /\ (name = "group_by_tickets" => G(w).t = "str" /\ G(w).s \in GroupKeys)
         /\ AllowListedOnly(F(w)) /\ ~NoTextColumn(df, F(w))
         /\ InvalidDate(D(w)))
            => /\ result[w].kind = "str"
               /\ result[w].text \in {InvalidGroupBy, InvalidMonth}

\* C5: group_by_tickets called with a group key outside the allow-list returns
\* "Invalid group_by column." whatever the dataset, the filters and the date
\* filter are, malformed ones and ones that match nothing included.
C5_InvalidGroupKeyRejectedFirst ==
    \A w \in Workers :
        (Called(w, "group_by_tickets") /\ ~(G(w).t = "str" /\ G(w).s \in GroupKeys))
            => result[w] = ResStr(InvalidGroupBy)

C5_Witness ==
    \E w \in Workers :
        /\ Called(w, "group_by_tickets")
        /\ G(w) = JStr(<<"ticket_id">>)
        /\ ~IsMapping(F(w))
        /\ InvalidDate(D(w))
        /\ result[w] = ResStr(InvalidGroupBy)

\* C6: a whitelisted tool called with arguments that leave out a required
\* parameter, or hold one the tool does not declare, ends in a structured
\* error reply, never in a raised exception.
C6_BadArgumentsAreReported ==
    \A w \in Workers :
        (app = "main" /\ Served(w) /\ req[w].name \in Operations
         /\ ~(/\ keys(req[w].args) \subseteq {"filters", "date_filter", "group_by"}
              /\ has_key(req[w].args, "group_by") <=> req[w].name = "group_by_tickets"))
            => result[w].kind # "raise"

\* the reply of the tool `name` for the kept rows
ReplyFor(name, g, kept) ==
    CASE name = "count_tickets" -> ResStr(<<"Total tickets: ">> \o format_int(Len(kept)))
      [] name = "filter_tickets" ->
            IF Len(kept) = 0 THEN ResStr(NoTicketsFound) ELSE ResRecords(kept)
      [] OTHER -> IF Len(kept) = 0 THEN ResStr(NoDataForGrouping)
                  ELSE group_by_return([rows |-> kept, object |-> {}], g)

C8_UnlistedKeysIgnored ==
    \A w \in Workers : \A name \in Operations :
        (Called(w, name) /\ F(w).t = "dict")
            => result[w] =
                 chat(df, WithFilters(w, JDict({ p \in F(w).d : p[1] \in FilterFields })))

C8_Witness ==
    \E w \in Workers :
        /\ Called(w, "filter_tickets")
        /\ F(w).t = "dict"
        /\ has_key(F(w).d, "ticket_id") /\ has_key(F(w).d, "created_date")
        /\ has_key(F(w).d, "company")
        /\ result[w].kind = "records"
        /\ Len(result[w].rows) < Len(df.rows)

\* C9: the module-level dataset stays as the startup load left it, and every
\* worker's reply is the one the same request gets when served alone on that
\* dataset, whatever the other workers are doing.
C9_DatasetNeverChanges ==
    /\ df = loaded
    /\ \A w \in Workers : pc[w] = "done" => result[w] = chat(loaded, req[w])

C9_Witness ==
    \E w, v \in Workers :
        /\ w # v
        /\ pc[w] = "done" /\ result[w].kind = "records"
        /\ pc[v] = "done" /\ result[v].kind = "raise"
        /\ Len(df.rows) > 0

\* C10: a filter on an allow-listed field keeps exactly the rows whose value
\* has the letters of the stringified filter value, in any case: the same
\* rows for the value in capitals, and none whose value is only a part of it.
C10_CaseInsensitiveExactMatch ==
    \A w \in Workers :
        (Called(w, "filter_tickets") /\ F(w).t = "dict" /\ ~truthy(D(w)))
            => /\ result[w] = chat(df, WithFilters(w, InCapitals(F(w))))
               /\ result[w].kind # "raise" =>
                     \A i \in 1..Len(df.rows) :
                        (\E j \in 1..Len(result[w].rows) : result[w].rows[j] = df.rows[i])
                          <=> \A p \in F(w).d : p[1] \in FilterFields =>
                                 /\ df.rows[i][p[1]] # NaN
                                 /\ SameIgnoringCase(df.rows[i][p[1]], py_str(p[2]))

C10_Witness ==
    \E w \in Workers :
        /\ Called(w, "filter_tickets") /\ ~truthy(D(w))
        /\ F(w) = JDict({<<"status", JStr(S_OPEN)>>})
        /\ df.rows = <<Ticket1, Ticket4, Ticket5>>
        /\ result[w] = ResRecords(<<Ticket1, Ticket4>>)

=============================================================================
